---- MODULE Spec2Model ----
(***************************************************************************)
(* Visual-regression pipeline of compare.js (bounded-concurrency scheduler *)
(* runWithConcurrencyLimit, the per-Target retry loop, the browser tabs a  *)
(* task opens and closes, the aggregation handed to generatePDFReport) and *)
(* the TabPool of check-excel.js (a fixed pool of tabs with a busy flag).  *)
(*                                                                         *)
(* JavaScript runs one callback at a time, so every action below is one    *)
(* run-to-completion step: the code between two awaits of one async        *)
(* function.                                                               *)
(***************************************************************************)
EXTENDS Integers, Sequences, FiniteSets, TLC

\* ---------------------------------------------------------------- bounds
MaxTargets == 3
MaxLimit == 2
MaxFairTargets == 2
MaxCallers == 3
MaxPoolSize == 2

\* The largest number of pixels of a screenshot.
MaxPixels == 3

\* The clock stops after MaxClock ticks.
MaxClock == 2

\* The largest number of rows when the clock runs.
MaxClockTargets == 1

\* The largest number of rows when the rows are any paths of UrlPaths.
MaxArtifactTargets == 2

\* ------------------------------------------------------ program constants
\* for (let attempt = 1; attempt <= 3; attempt++)
maxAttempts == 3

VARIABLES
    script,       \* which program runs: "compare" (compare.js) or "checkExcel"
    \* ---- compare.js
    excel,        \* the input file: [exists, rows]
    limit,        \* the limit argument of runWithConcurrencyLimit
    mainpc,       \* position of main()
    urls,         \* const urls = await readUrlsFromExcel(...)
    browserOpen,  \* the persistent context is launched and not closed
    loginTab,     \* 1 while the login page of main() is open
    schedpc,      \* position of runWithConcurrencyLimit
    next,         \* index of the task the for-of loop takes next
    results,      \* const results = [] (promises, named by task index)
    executing,    \* const executing = []
    raceOn,       \* the promises handed to the pending Promise.race
    runValues,    \* the array runWithConcurrencyLimit resolved with
    tpc,          \* position of each task
    attempt,      \* the loop variable attempt of each task
    diffPixels,   \* const diffPixels of the running attempt
    taskValue,    \* the value each task returned
    tabs,         \* number of open tabs each task owns
    opened,       \* history: tabs each task has opened
    failures,     \* history: attempts of each task that threw
    finalResults, \* const results = (...).filter(Boolean)
    report,       \* the arguments generatePDFReport was called with
    overtaken,    \* history: a task returned while an earlier one was running
    now,          \* Date.now()
    startTime,    \* const startTime of main
    taskStartTime,\* const taskStartTime of each task
    spent,        \* history: the ticks that passed while each task was in flight
    files,        \* the screenshot directories: who wrote each file last
    \* ---- check-excel.js
    nUrls,        \* urls.length of processUrls(urls)
    poolSize,     \* this.size
    poolTabs,     \* this.tabs: [page, busy]
    isInitialized,\* this.isInitialized
    contexts,     \* number of browser contexts created by initialize()
    ppc,          \* position of processUrls
    cpc,          \* position of each caller (0: ensureLogin, i: extractLinks i)
    initI,        \* the loop variable i of each caller's initialize()
    held,         \* the page of the tab each caller got from getTab (0: none)
    \* ---- compareScreenshots and the main loop that records its result
    variant,      \* which compareScreenshots runs: "pad", "crop", "cropThrow", "first"
    img1,         \* the decoded file img1Path: [width, height, data]
    img2,         \* the decoded file img2Path
    ipc,          \* position of the loop body around compareScreenshots
    passed,       \* the arguments pixelmatch was called with
    numDiffPixels,\* what compareScreenshots returned
    diffImage,    \* the PNG written to diffPath
    comparison    \* the record pushed to results

cvars == <<excel, limit, mainpc, urls, browserOpen, loginTab, schedpc, next,
           results, executing, raceOn, runValues, tpc, attempt, diffPixels,
           taskValue, tabs, opened, failures, finalResults, report,
           overtaken, now, startTime, taskStartTime, spent, files>>

tvars == <<now, startTime, taskStartTime, spent>>

pvars == <<nUrls, poolSize, poolTabs, isInitialized, contexts, ppc, cpc, initI,
           held>>

ivars == <<variant, img1, img2, ipc, passed, numDiffPixels, diffImage,
           comparison>>

vars == <<script, cvars, pvars, ivars>>

\* ------------------------------------------------------------ data values
TaskIds == 1..MaxTargets

\* The rows of the sheet, already reduced to paths; path i is row i.
ExcelFiles ==
    {[exists |-> FALSE, rows |-> <<>>]}
    \cup {[exists |-> TRUE, rows |-> [i \in 1..n |-> i]] : n \in 0..MaxTargets}

\* readUrlsFromExcel: every failure (missing file, empty sheet, no valid
\* URL) is caught and turned into [].
readUrlsFromExcel(file) ==
    IF ~file.exists THEN <<>>
    ELSE IF Len(file.rows) = 0 THEN <<>>
    ELSE file.rows

\* The characters of the paths, and those of them the class \w holds.
WordChars == {"a", "b", "c", "_"}

\* The paths the rows of the sheet are taken from.
UrlPaths ==
    << <<"/", "a">>,
       <<"/", "b">>,
       <<"/", "c">>,
       <<"/", "a", "-", "b">>,
       <<"/", "a", "/", "b">> >>

PathIds == DOMAIN UrlPaths

RECURSIVE Sanitize(_, _)
\* replace(/\W+/g, '_') from the left: each run of characters outside \w
\* becomes one '_'; inRun tells that the run was already replaced.
Sanitize(path, inRun) ==
    IF path = <<>> THEN <<>>
    ELSE IF Head(path) \in WordChars
         THEN <<Head(path)>> \o Sanitize(Tail(path), FALSE)
         ELSE IF inRun
              THEN Sanitize(Tail(path), TRUE)
              ELSE <<"_">> \o Sanitize(Tail(path), TRUE)

\* const cleanName = urlPath.replace(/\W+/g, '_'); paths.dev, paths.prod and
\* paths.diff are the three files of that name.
cleanName(urlPath) ==
    IF urlPath \in PathIds THEN Sanitize(UrlPaths[urlPath], FALSE) ELSE <<>>

CleanNames == {cleanName(i) : i \in PathIds}

\* No attempt has written the file.
NoWriter == <<0, 0>>

\* The directories after fs.emptyDirSync: no file.
NoFiles == [n \in CleanNames |-> [dev |-> NoWriter, prod |-> NoWriter, diff |-> NoWriter]]

\* The files of name that attempt a of task t has written when the try
\* block ended after its first k writes (dev, prod, diff in this order).
WriteFiles(fs, name, t, a, k) ==
    [fs EXCEPT ![name] = [dev |-> IF k >= 1 THEN <<t, a>> ELSE @.dev,
                          prod |-> IF k >= 2 THEN <<t, a>> ELSE @.prod,
                          diff |-> IF k >= 3 THEN <<t, a>> ELSE @.diff]]

Pending == [kind |-> "pending", url |-> 0, match |-> FALSE, diffPixels |-> 0,
            duration |-> 0]
Null == [kind |-> "null", url |-> 0, match |-> FALSE, diffPixels |-> 0,
         duration |-> 0]
Undefined == [kind |-> "undefined", url |-> 0, match |-> FALSE, diffPixels |-> 0,
              duration |-> 0]

\* match: diffPixels <= 0: the mutant that takes every count that is not
\* positive for a match.
MatchIfNotPositive(d) == d <= 0

\* match: diffPixels === 0
MatchOf(d) == d = 0

\* return { url: urlPath, match: diffPixels === 0, diffPixels, ... }; devPath,
\* prodPath and diffPath are the files named cleanName(urlPath).
ResultRecord(urlPath, d) ==
    [kind |-> "result", url |-> urlPath, match |-> MatchOf(d), diffPixels |-> d,
     duration |-> 0]

\* The numbers of differing pixels pixelmatch reports in the runs explored:
\* none, and the 500 of the specification's scenario.
DiffCounts == {0, 500}

\* .filter(() => true): the mutant whose filter drops nothing.
KeepsEverything(v) == TRUE

\* JavaScript truthiness of a task's return value: an object is truthy,
\* null and undefined are falsy.
Boolean(v) == v.kind = "result"

NoReport ==
    [called |-> FALSE, results |-> <<>>, totalUrls |-> 0, avgDuration |-> "none",
     totalDuration |-> 0]

\* results.reduce((sum, r) => sum + r.duration, 0) / results.length: with no
\* result the sum is 0 and 0 / 0 is NaN; otherwise the quotient is a finite
\* number (its value is not tracked).
AverageDuration(list) == IF Len(list) = 0 THEN "NaN" ELSE "finite"

\* ------------------------------------------------------- array operations
\* executing.indexOf(p): 0 stands for JavaScript's -1.
IndexOf(arr, p) ==
    IF \E i \in 1..Len(arr) : arr[i] = p
    THEN CHOOSE i \in 1..Len(arr) :
             arr[i] = p /\ \A j \in 1..(i - 1) : arr[j] # p
    ELSE 0

RemoveAt(arr, i) == [j \in 1..(Len(arr) - 1) |-> IF j < i THEN arr[j] ELSE arr[j + 1]]

\* executing.splice(executing.indexOf(p), 1): splice(-1, 1) removes the
\* last element.
Splice(arr, p) ==
    IF Len(arr) = 0 THEN arr
    ELSE IF IndexOf(arr, p) = 0 THEN RemoveAt(arr, Len(arr))
    ELSE RemoveAt(arr, IndexOf(arr, p))

Range(arr) == {arr[i] : i \in 1..Len(arr)}

\* ------------------------------------------------------------------ Init
\* ------------------------------------------------------------- images
\* Math.max and Math.min of two numbers.
Max(a, b) == IF a > b THEN a ELSE b

Min(a, b) == IF a < b THEN a ELSE b

\* Two RGBA pixels that pixelmatch tells apart at threshold 0.1.
Black == <<0, 0, 0, 255>>

White == <<255, 255, 255, 255>>

Colours == {Black, White}

\* The RGBA buffer of n pixels, four bytes a pixel, row after row.
Flatten(f, n) == [k \in 1..(4 * n) |-> f[((k - 1) \div 4) + 1][((k - 1) % 4) + 1]]

Dims == {d \in (1..MaxPixels) \X (1..MaxPixels) : d[1] * d[2] <= MaxPixels}

\* PNG.sync.read(fs.readFileSync(path)): width, height and an RGBA buffer of
\* width * height * 4 bytes.
Images ==
    UNION { { [width |-> d[1], height |-> d[2],
               data |-> Flatten(f, d[1] * d[2])] : f \in [1..(d[1] * d[2]) -> Colours] }
            : d \in Dims }

\* A decoded file whose header declares no column or no row: no pixel data.
ZeroImages ==
    {[width |-> d[1], height |-> d[2], data |-> <<>>] :
        d \in {e \in (0..MaxPixels) \X (0..MaxPixels) : e[1] * e[2] = 0}}

IsZeroImage(img) == img.width = 0 \/ img.height = 0

\* The pairs of files compareScreenshots is given: two images, or an image
\* and a file without pixels.
ImagePairs ==
    (Images \X Images) \cup (Images \X ZeroImages) \cup (ZeroImages \X Images)

NoImage == [width |-> 0, height |-> 0, data |-> <<>>]

NoCall == [called |-> FALSE, img1 |-> NoImage, img2 |-> NoImage,
           width |-> 0, height |-> 0]

\* The mutant of padImage that allocates the buffer without the fill value.
PaddedByteZeroFill(img, x, y, c) ==
    IF x < img.width /\ y < img.height
        THEN img.data[(y * img.width + x) * 4 + c + 1]
        ELSE 0

\* Byte c of pixel (x, y) of the padded buffer: Buffer.alloc(..., 255), then
\* the copy of the four bytes at srcIdx for every pixel of img.
PaddedByte(img, x, y, c) ==
    IF x < img.width /\ y < img.height
        THEN img.data[(y * img.width + x) * 4 + c + 1]
        ELSE 255

\* The mutant of padImage that returns the filled buffer without the copy
\* and without the early return.
padImageBlank(img, targetWidth, targetHeight) ==
    [width |-> targetWidth, height |-> targetHeight,
     data |-> [k \in 1..(targetWidth * targetHeight * 4) |-> 255]]

\* padImage(img, targetWidth, targetHeight), called with targets that are at
\* least the size of img; dstIdx = (y * targetWidth + x) * 4.
padImage(img, targetWidth, targetHeight) ==
    IF img.width = targetWidth /\ img.height = targetHeight
        THEN img
        ELSE [width |-> targetWidth, height |-> targetHeight,
              data |-> [k \in 1..(targetWidth * targetHeight * 4) |->
                            PaddedByte(img,
                                       ((k - 1) \div 4) % targetWidth,
                                       ((k - 1) \div 4) \div targetWidth,
                                       (k - 1) % 4)]]

\* The mutant of pixelmatch that counts every pixel.
EveryPixelDiffers(d1, d2, p) == TRUE

\* pixelmatch counts pixel p when its colours are further apart than the
\* threshold; Black and White are, equal pixels are not.
DifferentPixel(d1, d2, p) ==
    \E c \in 1..4 : d1[4 * p + c] # d2[4 * p + c]

\* pixelmatch(img1, img2, output, width, height) throws when the three
\* buffers differ in length or are not width * height * 4 bytes long.
PixelmatchThrows(d1, d2, outLen, width, height) ==
    \/ Len(d1) # Len(d2)
    \/ outLen # Len(d1)
    \/ Len(d1) # width * height * 4

pixelmatch(d1, d2, width, height) ==
    Cardinality({p \in 0..(width * height - 1) : DifferentPixel(d1, d2, p)})

\* The mutant of compareScreenshots that pads to the smaller dimension.
PadDimSmaller(a, b) == Min(a, b)

\* const width = Math.max(img1.width, img2.width), and height alike.
PadDim(a, b) == Max(a, b)

\* const width = Math.min(img1.width, img2.width) of the cropping variants.
CropDim(a, b) == Min(a, b)

Variants == {"pad", "crop", "cropThrow", "first"}

\* The width and height compareScreenshots passes to new PNG and pixelmatch.
CompareWidth ==
    CASE variant = "pad" -> PadDim(img1.width, img2.width)
      [] variant \in {"crop", "cropThrow"} -> CropDim(img1.width, img2.width)
      [] OTHER -> img1.width

CompareHeight ==
    CASE variant = "pad" -> PadDim(img1.height, img2.height)
      [] variant \in {"crop", "cropThrow"} -> CropDim(img1.height, img2.height)
      [] OTHER -> img1.height

\* The image whose data compareScreenshots passes to pixelmatch.
Normalized(img) ==
    IF variant = "pad" THEN padImage(img, CompareWidth, CompareHeight) ELSE img

\* No screenshot is being compared.
ImageIdle ==
    /\ variant = "none"
    /\ img1 = NoImage
    /\ img2 = NoImage
    /\ ipc = "idle"
    /\ passed = NoCall
    /\ numDiffPixels = 0
    /\ diffImage = NoImage
    /\ comparison = Pending


\* Callers of the pool: 0 is ensureLogin, 1..nUrls are the extractLinks calls.
Callers == 0..MaxCallers

\* new TabPool(browser, size): tabs = [], isInitialized = false.
NewTabPool ==
    /\ poolTabs = <<>>
    /\ isInitialized = FALSE
    /\ contexts = 0
    /\ ppc = "start"
    /\ cpc = [c \in Callers |-> "idle"]
    /\ initI = [c \in Callers |-> 0]
    /\ held = [c \in Callers |-> 0]

\* compare.js before main() has run.
CompareAtStart ==
    /\ mainpc = "start"
    /\ urls = <<>>
    /\ browserOpen = FALSE
    /\ loginTab = 0
    /\ schedpc = "idle"
    /\ next = 1
    /\ results = <<>>
    /\ executing = <<>>
    /\ raceOn = {}
    /\ runValues = <<>>
    /\ tpc = [t \in TaskIds |-> "unstarted"]
    /\ attempt = [t \in TaskIds |-> 0]
    /\ diffPixels = [t \in TaskIds |-> 0]
    /\ taskValue = [t \in TaskIds |-> Pending]
    /\ tabs = [t \in TaskIds |-> 0]
    /\ opened = [t \in TaskIds |-> 0]
    /\ failures = [t \in TaskIds |-> 0]
    /\ finalResults = <<>>
    /\ report = NoReport
    /\ overtaken = FALSE
    /\ startTime = now
    /\ taskStartTime = [t \in TaskIds |-> 0]
    /\ spent = [t \in TaskIds |-> 0]
    /\ files = NoFiles

\* node compare.js with one of the input files, any limit.
CompareWith(inputs) ==
    /\ script = "compare"
    /\ excel \in inputs
    /\ limit \in 1..MaxLimit
    /\ CompareAtStart
    /\ nUrls = 1
    /\ poolSize = 1
    /\ NewTabPool
    /\ ImageIdle

\* node compare.js: any input file, any limit.
InitCompare == now = 0 /\ CompareWith(ExcelFiles)

\* node check-excel.js: processUrls(urls) with a non-empty urls (main returns
\* before it when urls.length === 0) and a pool of poolSize tabs.
InitCheckExcel ==
    /\ now = 0
    /\ script = "checkExcel"
    /\ nUrls \in 1..MaxCallers
    /\ poolSize \in 1..MaxPoolSize
    /\ NewTabPool
    /\ excel = [exists |-> FALSE, rows |-> <<>>]
    /\ limit = 1
    /\ CompareAtStart
    /\ ImageIdle

\* One pass of the loop body that compares the two screenshots of a url:
\* any two decoded files, any variant of compareScreenshots.
InitImage ==
    /\ now = 0
    /\ script = "image"
    /\ variant \in Variants
    /\ \E pair \in ImagePairs : img1 = pair[1] /\ img2 = pair[2]
    /\ ipc = "call"
    /\ passed = NoCall
    /\ numDiffPixels = 0
    /\ diffImage = NoImage
    /\ comparison = Pending
    /\ excel = [exists |-> FALSE, rows |-> <<>>]
    /\ limit = 1
    /\ CompareAtStart
    /\ nUrls = 1
    /\ poolSize = 1
    /\ NewTabPool

\* new TabPool(browser, poolSize) used by nUrls callers of getTab().
InitTabPool ==
    /\ now = 0
    /\ script = "tabPool"
    /\ nUrls \in 1..MaxCallers
    /\ poolSize \in 1..MaxPoolSize
    /\ NewTabPool
    /\ excel = [exists |-> FALSE, rows |-> <<>>]
    /\ limit = 1
    /\ CompareAtStart
    /\ ImageIdle

Init == InitCompare \/ InitCheckExcel \/ InitImage

\* ---------------------------------------------------------------- main()
\* The mutant of main without the check of urls.length.
NeverEmpty(list) == FALSE

\* !urls.length
NoUrls(list) == Len(list) = 0

\* const urls = await readUrlsFromExcel(...); if (!urls.length) return;
\* launchPersistentContext; const page = await browser.newPage();
ReadUrls ==
    /\ script = "compare"
    /\ mainpc = "start"
    /\ urls' = readUrlsFromExcel(excel)
    /\ IF NoUrls(urls')
       THEN /\ mainpc' = "exited"
            /\ UNCHANGED <<browserOpen, loginTab>>
       ELSE /\ mainpc' = "login"
            /\ browserOpen' = TRUE
            /\ loginTab' = 1
    /\ UNCHANGED <<script, ivars, pvars, tvars, files, overtaken, excel, limit, schedpc, next, results, executing,
                   raceOn, runValues, tpc, attempt, diffPixels, taskValue,
                   tabs, opened, failures, finalResults, report>>

\* await page.close(); the tasks are built and runWithConcurrencyLimit is
\* called: results = [], executing = [], the loop is entered.
StartRun ==
    /\ script = "compare"
    /\ mainpc = "login"
    /\ loginTab' = 0
    /\ mainpc' = "running"
    /\ schedpc' = "loop"
    /\ next' = 1
    /\ results' = <<>>
    /\ executing' = <<>>
    /\ UNCHANGED <<script, ivars, pvars, tvars, files, overtaken, excel, limit, urls, browserOpen, raceOn, runValues,
                   tpc, attempt, diffPixels, taskValue, tabs, opened,
                   failures, finalResults, report>>

\* ------------------------------------------------ runWithConcurrencyLimit
\* if (executing.length > limit): the mutant that waits one task too late.
AtLimitOffByOne(n, lim) == n > lim

\* if (executing.length >= limit)
AtLimit(n, lim) == n >= lim

\* results.unshift(p): the mutant that collects the promises in reverse.
UnshiftResult(arr, p) == <<p>> \o arr

\* results.push(p)
PushResult(arr, p) == Append(arr, p)

\* The mutant whose loop never awaits Promise.race.
NeverWait(n, lim) == FALSE

\* Whether the loop awaits Promise.race(executing) after pushing p.
MustWait(n, lim) == AtLimit(n, lim)

\* One iteration of the for-of loop: task() runs the task up to its first
\* await (taskStartTime = Date.now(), then browser.newPage() of attempt 1); p is pushed on results and on
\* executing; if (executing.length >= limit) await Promise.race(executing).
Admit ==
    /\ script = "compare"
    /\ schedpc = "loop"
    /\ next <= Len(urls)
    /\ tpc' = [tpc EXCEPT ![next] = "newPage"]
    /\ attempt' = [attempt EXCEPT ![next] = 1]
    /\ taskStartTime' = [taskStartTime EXCEPT ![next] = now]
    /\ results' = PushResult(results, next)
    /\ executing' = Append(executing, next)
    /\ next' = next + 1
    /\ IF MustWait(Len(executing'), limit)
       THEN /\ schedpc' = "race"
            /\ raceOn' = Range(executing')
       ELSE /\ schedpc' = "loop"
            /\ raceOn' = raceOn
    /\ UNCHANGED <<script, ivars, pvars, now, startTime, spent, files, overtaken, excel, limit, mainpc, urls, browserOpen, loginTab,
                   runValues, diffPixels, taskValue, tabs, opened, failures,
                   finalResults, report>>

\* Promise.race(executing) settles as the first of its promises that
\* settles: fulfilled, the loop goes on; rejected, the await throws and
\* runWithConcurrencyLimit rejects.
RaceResume ==
    /\ script = "compare"
    /\ schedpc = "race"
    /\ \E p \in raceOn :
          \/ tpc[p] = "settled" /\ schedpc' = "loop"
          \/ tpc[p] = "threw" /\ schedpc' = "rejected"
    /\ raceOn' = {}
    /\ UNCHANGED <<script, ivars, pvars, tvars, files, overtaken, excel, limit, mainpc, urls, browserOpen, loginTab,
                   next, results, executing, runValues, tpc, attempt,
                   diffPixels, taskValue, tabs, opened, failures,
                   finalResults, report>>

\* The loop is over: return Promise.all(results).
LoopEnd ==
    /\ script = "compare"
    /\ schedpc = "loop"
    /\ next > Len(urls)
    /\ schedpc' = "all"
    /\ UNCHANGED <<script, ivars, pvars, tvars, files, overtaken, excel, limit, mainpc, urls, browserOpen, loginTab,
                   next, results, executing, raceOn, runValues, tpc, attempt,
                   diffPixels, taskValue, tabs, opened, failures,
                   finalResults, report>>

\* return Promise.all(executing): the mutant that awaits only what is
\* still listed as executing.
AwaitedExecuting == executing

\* return Promise.all(results)
AwaitedPromises == results

\* return results: the mutant that hands the promises back without waiting
\* for them.
NoWaitForAll(ps) == TRUE

\* Every promise given to Promise.all is fulfilled.
AllFulfilled(ps) == \A i \in 1..Len(ps) : tpc[ps[i]] = "settled"

\* Promise.all(results) fulfils, in the order of results, once every
\* promise of results is fulfilled, and rejects once one of them is rejected.
AllResolve ==
    /\ script = "compare"
    /\ schedpc = "all"
    /\ IF \E i \in 1..Len(AwaitedPromises) : tpc[AwaitedPromises[i]] = "threw"
       THEN /\ schedpc' = "rejected"
            /\ runValues' = runValues
       ELSE /\ AllFulfilled(AwaitedPromises)
            /\ schedpc' = "resolved"
            /\ runValues' = [i \in 1..Len(AwaitedPromises) |->
                                 taskValue[AwaitedPromises[i]]]
    /\ UNCHANGED <<script, ivars, pvars, tvars, files, overtaken, excel, limit, mainpc, urls, browserOpen, loginTab,
                   next, results, executing, raceOn, tpc, attempt,
                   diffPixels, taskValue, tabs, opened, failures,
                   finalResults, report>>

\* The node process runs until the catch block of main calls
\* process.exit(1), which ends every task with it.
ProcessRuns == mainpc # "failed"

\* .then(result => { executing.splice(executing.indexOf(p), 1); return result; })
ThenCallback(t) ==
    /\ script = "compare"
    /\ ProcessRuns
    /\ tpc[t] = "returned"
    /\ executing' = Splice(executing, t)
    /\ tpc' = [tpc EXCEPT ![t] = "settled"]
    /\ UNCHANGED <<script, ivars, pvars, tvars, files, overtaken, excel, limit, mainpc, urls, browserOpen, loginTab,
                   schedpc, next, results, raceOn, runValues, attempt,
                   diffPixels, taskValue, tabs, opened, failures,
                   finalResults, report>>

\* ------------------------------------------------------- the task of a URL
\* Task t ends while the task of an earlier Target is still running.
Overtakes(t) ==
    \E u \in 1..(t - 1) : tpc[u] \in {"newPage", "try", "closeOk", "closeErr"}

\* if (attempt === 2): the mutant that gives up one attempt early.
GivesUpEarly(a) == a = maxAttempts - 1

\* if (attempt === 3)
LastAttempt(a) == a = maxAttempts

\* throw error after the last attempt: the mutant whose task rejects.
RethrowsWhenExhausted(a) == IF LastAttempt(a) THEN "throw" ELSE "retry"

\* if (attempt === 3) { return null; } else { (the loop goes on) }
CatchOutcome(a) == IF LastAttempt(a) THEN "return" ELSE "retry"

\* return { url, match: false, diffPixels: 500 } after the last attempt: the
\* mutant that reports an exhausted Target as a mismatch.
ExhaustedAsMismatch(urlPath) == ResultRecord(urlPath, 500)

\* return null
ExhaustedValue(urlPath) == Null

\* The mutant whose catch block does not close the tab.
TabLeftOpen(n) == n

\* await tab.close() in the catch block: the task's open tabs afterwards.
TabsAfterCatch(n) == n - 1

\* const tab = await browser.newPage(); the try block is entered.
OpenTab(t) ==
    /\ script = "compare"
    /\ ProcessRuns
    /\ tpc[t] = "newPage"
    /\ tabs' = [tabs EXCEPT ![t] = @ + 1]
    /\ opened' = [opened EXCEPT ![t] = @ + 1]
    /\ tpc' = [tpc EXCEPT ![t] = "try"]
    /\ UNCHANGED <<script, ivars, pvars, tvars, files, overtaken, excel, limit, mainpc, urls, browserOpen, loginTab,
                   schedpc, next, results, executing, raceOn, runValues,
                   attempt, diffPixels, taskValue, failures, finalResults,
                   report>>

\* Both captures and compareScreenshots went through: the three files of
\* the url are written, diffPixels is set and await tab.close() is reached.
TrySucceeds(t) ==
    /\ script = "compare"
    /\ ProcessRuns
    /\ tpc[t] = "try"
    /\ \E d \in DiffCounts : diffPixels' = [diffPixels EXCEPT ![t] = d]
    /\ files' = WriteFiles(files, cleanName(urls[t]), t, attempt[t], 3)
    /\ tpc' = [tpc EXCEPT ![t] = "closeOk"]
    /\ UNCHANGED <<script, ivars, pvars, tvars, overtaken, excel, limit, mainpc, urls, browserOpen, loginTab,
                   schedpc, next, results, executing, raceOn, runValues,
                   attempt, taskValue, tabs, opened, failures, finalResults,
                   report>>

\* The capture of the dev page threw before its screenshot was written:
\* the catch block is entered and reaches await tab.close().
TryThrows(t) ==
    /\ script = "compare"
    /\ ProcessRuns
    /\ tpc[t] = "try"
    /\ failures' = [failures EXCEPT ![t] = @ + 1]
    /\ tpc' = [tpc EXCEPT ![t] = "closeErr"]
    /\ UNCHANGED <<script, ivars, pvars, tvars, files, overtaken, excel, limit, mainpc, urls, browserOpen, loginTab,
                   schedpc, next, results, executing, raceOn, runValues,
                   attempt, diffPixels, taskValue, tabs, opened,
                   finalResults, report>>

\* const taskDuration = (Date.now() - taskStartTime) / 1000
TaskDuration(start, clock) == clock - start

\* The mutant whose taskStartTime is taken anew in every attempt.
RestartAtRetry(start, clock) == clock

\* taskStartTime is declared before the loop: a new attempt keeps it.
StartAfterRetry(start, clock) == start

\* The mutant whose try block returns without closing the tab.
TabKeptAfterTry(n) == n

\* await tab.close() in the try block: the task's open tabs afterwards.
TabsAfterTry(n) == n - 1

\* await tab.close() of the try block is over: return { url, match, ... }.
ReturnResult(t) ==
    /\ script = "compare"
    /\ ProcessRuns
    /\ tpc[t] = "closeOk"
    /\ tabs' = [tabs EXCEPT ![t] = TabsAfterTry(@)]
    /\ taskValue' = [taskValue EXCEPT ![t] =
                         [ResultRecord(urls[t], diffPixels[t]) EXCEPT
                              !.duration = TaskDuration(taskStartTime[t], now)]]
    /\ diffPixels' = [diffPixels EXCEPT ![t] = 0]
    /\ tpc' = [tpc EXCEPT ![t] = "returned"]
    /\ overtaken' = (overtaken \/ Overtakes(t))
    /\ UNCHANGED <<script, ivars, pvars, tvars, files, excel, limit, mainpc, urls, browserOpen, loginTab,
                   schedpc, next, results, executing, raceOn, runValues,
                   attempt, opened, failures, finalResults, report>>

\* await tab.close() of the catch block is over: if (attempt === 3) return
\* null; otherwise attempt++ and, while attempt <= 3, the next
\* browser.newPage() is awaited (past the loop the function returns
\* undefined). An exception leaving the function rejects its promise.
AfterCatch(t) ==
    /\ script = "compare"
    /\ ProcessRuns
    /\ tpc[t] = "closeErr"
    /\ tabs' = [tabs EXCEPT ![t] = TabsAfterCatch(@)]
    /\ IF CatchOutcome(attempt[t]) = "return"
       THEN /\ taskValue' = [taskValue EXCEPT ![t] = ExhaustedValue(urls[t])]
            /\ tpc' = [tpc EXCEPT ![t] = "returned"]
            /\ attempt' = attempt
            /\ taskStartTime' = taskStartTime
            /\ overtaken' = (overtaken \/ Overtakes(t))
       ELSE IF CatchOutcome(attempt[t]) = "throw"
       THEN /\ tpc' = [tpc EXCEPT ![t] = "threw"]
            /\ UNCHANGED <<taskValue, attempt, overtaken, taskStartTime>>
       ELSE /\ attempt' = [attempt EXCEPT ![t] = @ + 1]
            /\ taskStartTime' = [taskStartTime EXCEPT ![t] = StartAfterRetry(@, now)]
            /\ IF attempt'[t] <= maxAttempts
               THEN /\ tpc' = [tpc EXCEPT ![t] = "newPage"]
                    /\ UNCHANGED <<taskValue, overtaken>>
               ELSE /\ tpc' = [tpc EXCEPT ![t] = "returned"]
                    /\ taskValue' = [taskValue EXCEPT ![t] = Undefined]
                    /\ overtaken' = (overtaken \/ Overtakes(t))
    /\ UNCHANGED <<script, ivars, pvars, now, startTime, spent, files, excel, limit, mainpc, urls, browserOpen, loginTab,
                   schedpc, next, results, executing, raceOn, runValues,
                   diffPixels, opened, failures, finalResults, report>>

\* const tab = await browser.newPage() throws: it is outside the try block,
\* so the exception leaves the task function and rejects its promise.
NewPageThrows(t) ==
    /\ script = "compare"
    /\ ProcessRuns
    /\ tpc[t] = "newPage"
    /\ tpc' = [tpc EXCEPT ![t] = "threw"]
    /\ UNCHANGED <<script, ivars, pvars, tvars, files, overtaken, excel, limit, mainpc, urls, browserOpen, loginTab,
                   schedpc, next, results, executing, raceOn, runValues,
                   attempt, diffPixels, taskValue, tabs, opened, failures,
                   finalResults, report>>

\* await tab.close() of the catch block throws: the exception leaves the
\* task function and rejects its promise; the tab is not closed.
CloseInCatchThrows(t) ==
    /\ script = "compare"
    /\ ProcessRuns
    /\ tpc[t] = "closeErr"
    /\ tpc' = [tpc EXCEPT ![t] = "threw"]
    /\ UNCHANGED <<script, ivars, pvars, tvars, files, overtaken, excel, limit, mainpc, urls, browserOpen, loginTab,
                   schedpc, next, results, executing, raceOn, runValues,
                   attempt, diffPixels, taskValue, tabs, opened, failures,
                   finalResults, report>>

\* A capture or the comparison threw after the first k files of the url
\* were written (k = 3: await tab.close() of the try block threw): the catch
\* block is entered and reaches await tab.close().
TryThrowsAfter(t, k) ==
    /\ script = "compare"
    /\ ProcessRuns
    /\ tpc[t] = "try"
    /\ files' = WriteFiles(files, cleanName(urls[t]), t, attempt[t], k)
    /\ failures' = [failures EXCEPT ![t] = @ + 1]
    /\ tpc' = [tpc EXCEPT ![t] = "closeErr"]
    /\ UNCHANGED <<script, ivars, pvars, tvars, overtaken, excel, limit, mainpc, urls, browserOpen, loginTab,
                   schedpc, next, results, executing, raceOn, runValues,
                   attempt, diffPixels, taskValue, tabs, opened,
                   finalResults, report>>

\* Time passes while main has not ended: Date.now() grows, for the run and
\* for every task in flight.
Tick ==
    /\ script = "compare"
    /\ mainpc \in {"start", "login", "running", "summary"}
    /\ now - startTime < MaxClock
    /\ now' = now + 1
    /\ spent' = [t \in TaskIds |->
                    IF tpc[t] \in {"newPage", "try", "closeOk", "closeErr"}
                    THEN spent[t] + 1 ELSE spent[t]]
    /\ UNCHANGED <<script, ivars, pvars, startTime, taskStartTime, files, overtaken, excel, limit, mainpc,
                   urls, browserOpen, loginTab, schedpc, next, results,
                   executing, raceOn, runValues, tpc, attempt, diffPixels,
                   taskValue, tabs, opened, failures, finalResults, report>>

\* ------------------------------------------------------------ aggregation
\* const results = (await runWithConcurrencyLimit(...)).filter(Boolean);
\* await browser.close(); when the await throws, the catch block of main
\* logs the error and calls process.exit(1).
Drain ==
    /\ script = "compare"
    /\ mainpc = "running"
    /\ schedpc \in {"resolved", "rejected"}
    /\ IF schedpc = "resolved"
       THEN /\ finalResults' = SelectSeq(runValues, Boolean)
            /\ browserOpen' = FALSE
            /\ mainpc' = "summary"
       ELSE /\ mainpc' = "failed"
            /\ UNCHANGED <<finalResults, browserOpen>>
    /\ UNCHANGED <<script, ivars, pvars, tvars, files, overtaken, excel, limit, urls, loginTab, schedpc, next,
                   results, executing, raceOn, runValues, tpc, attempt,
                   diffPixels, taskValue, tabs, opened, failures, report>>

\* await generatePDFReport(results, { totalUrls: results.length, ... })
Report ==
    /\ script = "compare"
    /\ mainpc = "summary"
    /\ report' = [called |-> TRUE, results |-> finalResults,
                  totalUrls |-> Len(finalResults),
                  avgDuration |-> AverageDuration(finalResults),
                  totalDuration |-> now - startTime]
    /\ mainpc' = "done"
    /\ UNCHANGED <<script, ivars, pvars, tvars, files, overtaken, excel, limit, urls, browserOpen, loginTab, schedpc,
                   next, results, executing, raceOn, runValues, tpc, attempt,
                   diffPixels, taskValue, tabs, opened, failures,
                   finalResults>>

NextCompare ==
    \/ ReadUrls
    \/ StartRun
    \/ Admit
    \/ RaceResume
    \/ LoopEnd
    \/ AllResolve
    \/ \E t \in TaskIds : ThenCallback(t)
    \/ \E t \in TaskIds : OpenTab(t)
    \/ \E t \in TaskIds : TrySucceeds(t)
    \/ \E t \in TaskIds : TryThrows(t)
    \/ \E t \in TaskIds : ReturnResult(t)
    \/ \E t \in TaskIds : AfterCatch(t)
    \/ Drain
    \/ Report

\* ------------------------------------------------- check-excel.js: TabPool
\* this.tabs.find(t => !t.busy): the index of the first free tab, 0 if none.
FindFree(arr) ==
    IF \E i \in 1..Len(arr) : ~arr[i].busy
    THEN CHOOSE i \in 1..Len(arr) :
             ~arr[i].busy /\ \A j \in 1..(i - 1) : arr[j].busy
    ELSE 0

\* this.tabs.findIndex(t => t.page === tab.page), 0 for -1.
FindIndex(arr, page) ==
    IF \E i \in 1..Len(arr) : arr[i].page = page
    THEN CHOOSE i \in 1..Len(arr) :
             arr[i].page = page /\ \A j \in 1..(i - 1) : arr[j].page # page
    ELSE 0

\* The mutant of releaseTab that leaves the tab busy.
releaseNothing(arr, page) == arr

\* releaseTab(tab): if (tabIndex !== -1) this.tabs[tabIndex].busy = false.
releaseTab(arr, page) ==
    IF FindIndex(arr, page) = 0 THEN arr
    ELSE [arr EXCEPT ![FindIndex(arr, page)].busy = FALSE]

\* The mutant that hands the tab out without marking it.
LeaveFree(arr, i) == arr

\* tab.busy = true
MarkBusy(arr, i) == [arr EXCEPT ![i].busy = TRUE]

\* The programs that use a TabPool: processUrls, and callers that call
\* getTab() and releaseTab() on a new pool in any order.
PoolScripts == {"checkExcel", "tabPool"}

\* The position a caller is at after calling getTab(): initialize() returns
\* at once when isInitialized, else it awaits browser.newContext().
AfterGetTabCall == IF isInitialized THEN "initRet" ELSE "initCtx"

\* processUrls: await ensureLogin(tabPool), whose first statement is
\* await tabPool.getTab().
CallEnsureLogin ==
    /\ script = "checkExcel"
    /\ ppc = "start"
    /\ ppc' = "login"
    /\ cpc' = [cpc EXCEPT ![0] = AfterGetTabCall]
    /\ UNCHANGED <<script, ivars, cvars, nUrls, poolSize, poolTabs, isInitialized,
                   contexts, initI, held>>

\* initialize(): this.context = await this.browser.newContext() is over;
\* the for loop starts: i = 0, and while i < size a newPage() is awaited.
ContextCreated(c) ==
    /\ script \in PoolScripts
    /\ cpc[c] = "initCtx"
    /\ contexts' = contexts + 1
    /\ initI' = [initI EXCEPT ![c] = 0]
    /\ IF 0 < poolSize
       THEN /\ cpc' = [cpc EXCEPT ![c] = "initPage"]
            /\ isInitialized' = isInitialized
       ELSE /\ cpc' = [cpc EXCEPT ![c] = "initRet"]
            /\ isInitialized' = TRUE
    /\ UNCHANGED <<script, ivars, cvars, nUrls, poolSize, poolTabs, ppc, held>>

\* initialize(): await this.context.newPage() is over;
\* this.tabs.push({ page, busy: false }); i++; past the loop
\* this.isInitialized = true.
PageCreated(c) ==
    /\ script \in PoolScripts
    /\ cpc[c] = "initPage"
    /\ poolTabs' = Append(poolTabs, [page |-> Len(poolTabs) + 1, busy |-> FALSE])
    /\ initI' = [initI EXCEPT ![c] = @ + 1]
    /\ IF initI'[c] < poolSize
       THEN /\ cpc' = [cpc EXCEPT ![c] = "initPage"]
            /\ isInitialized' = isInitialized
       ELSE /\ cpc' = [cpc EXCEPT ![c] = "initRet"]
            /\ isInitialized' = TRUE
    /\ UNCHANGED <<script, ivars, cvars, nUrls, poolSize, contexts, ppc, held>>

\* getTab(): one turn of while (true), after await this.initialize() or
\* after the 100 ms timer: the first free tab is marked busy and returned,
\* or a new timer is awaited.
FindTab(c) ==
    /\ script \in PoolScripts
    /\ cpc[c] \in {"initRet", "sleep"}
    /\ IF FindFree(poolTabs) # 0
       THEN /\ poolTabs' = MarkBusy(poolTabs, FindFree(poolTabs))
            /\ held' = [held EXCEPT ![c] = poolTabs[FindFree(poolTabs)].page]
            /\ cpc' = [cpc EXCEPT ![c] = "hold"]
       ELSE /\ cpc' = [cpc EXCEPT ![c] = "sleep"]
            /\ UNCHANGED <<poolTabs, held>>
    /\ UNCHANGED <<script, ivars, cvars, nUrls, poolSize, isInitialized, contexts,
                   ppc, initI>>

\* ensureLogin went through: finally { tabPool.releaseTab(tab) }; then
\* processUrls maps urls to extractLinks(tabPool, url, index), each of which
\* runs up to its await tabPool.getTab(), and awaits Promise.all(promises).
LoginDone ==
    /\ script = "checkExcel"
    /\ ppc = "login"
    /\ cpc[0] = "hold"
    /\ poolTabs' = releaseTab(poolTabs, held[0])
    /\ held' = [held EXCEPT ![0] = 0]
    /\ cpc' = [c \in Callers |->
                  IF c = 0 THEN "done"
                  ELSE IF c <= nUrls THEN AfterGetTabCall
                  ELSE cpc[c]]
    /\ ppc' = "extract"
    /\ UNCHANGED <<script, ivars, cvars, nUrls, poolSize, isInitialized, contexts,
                   initI>>

\* ensureLogin threw (page.goto or handleLogin): finally releases the tab,
\* the error leaves processUrls through its finally (tabPool.close(),
\* browser.close()).
LoginThrows ==
    /\ script = "checkExcel"
    /\ ppc = "login"
    /\ cpc[0] = "hold"
    /\ poolTabs' = releaseTab(poolTabs, held[0])
    /\ held' = [held EXCEPT ![0] = 0]
    /\ cpc' = [cpc EXCEPT ![0] = "threw"]
    /\ ppc' = "failed"
    /\ UNCHANGED <<script, ivars, cvars, nUrls, poolSize, isInitialized, contexts,
                   initI>>

\* extractLinks: the try block returned its links, or the catch block
\* returned the empty lists; finally { tabPool.releaseTab(tab) }.
ExtractDone(c) ==
    /\ script = "checkExcel"
    /\ c # 0
    /\ cpc[c] = "hold"
    /\ poolTabs' = releaseTab(poolTabs, held[c])
    /\ held' = [held EXCEPT ![c] = 0]
    /\ cpc' = [cpc EXCEPT ![c] = "done"]
    /\ UNCHANGED <<script, ivars, cvars, nUrls, poolSize, isInitialized, contexts,
                   ppc, initI>>

\* const batchResults = await Promise.all(promises); the results are
\* collected and finally closes the pool and the browser.
Collect ==
    /\ script = "checkExcel"
    /\ ppc = "extract"
    /\ \A c \in 1..nUrls : cpc[c] = "done"
    /\ ppc' = "collected"
    /\ UNCHANGED <<script, ivars, cvars, nUrls, poolSize, poolTabs, isInitialized,
                   contexts, cpc, initI, held>>

\* A caller calls tabPool.getTab() on the pool, whatever the others do.
CallGetTab(c) ==
    /\ script = "tabPool"
    /\ c \in 1..nUrls
    /\ cpc[c] = "idle"
    /\ cpc' = [cpc EXCEPT ![c] = AfterGetTabCall]
    /\ UNCHANGED <<script, ivars, cvars, nUrls, poolSize, poolTabs, isInitialized,
                   contexts, ppc, initI, held>>

\* The caller calls tabPool.releaseTab(tab) with the tab it was given.
CallReleaseTab(c) ==
    /\ script = "tabPool"
    /\ cpc[c] = "hold"
    /\ poolTabs' = releaseTab(poolTabs, held[c])
    /\ held' = [held EXCEPT ![c] = 0]
    /\ cpc' = [cpc EXCEPT ![c] = "done"]
    /\ UNCHANGED <<script, ivars, cvars, nUrls, poolSize, isInitialized, contexts,
                   ppc, initI>>

NextTabPool ==
    \/ \E c \in Callers : CallGetTab(c)
    \/ \E c \in Callers : ContextCreated(c)
    \/ \E c \in Callers : PageCreated(c)
    \/ \E c \in Callers : FindTab(c)
    \/ \E c \in Callers : CallReleaseTab(c)

NextCheckExcel ==
    \/ CallEnsureLogin
    \/ \E c \in Callers : ContextCreated(c)
    \/ \E c \in Callers : PageCreated(c)
    \/ \E c \in Callers : FindTab(c)
    \/ LoginDone
    \/ LoginThrows
    \/ \E c \in Callers : ExtractDone(c)
    \/ Collect

\* ------------------------------------------------- compareScreenshots
\* compareScreenshots(img1Path, img2Path, diffPath): read both files, take
\* the width and height, pad (the padding variants), call pixelmatch, write
\* the diff image and return the count.  When pixelmatch throws, the
\* variant "crop" returns -1 and the others throw to the caller.
CompareScreenshots ==
    /\ script = "image"
    /\ ipc = "call"
    /\ LET width == CompareWidth
           height == CompareHeight
           a == Normalized(img1)
           b == Normalized(img2)
           threw == PixelmatchThrows(a.data, b.data, width * height * 4,
                                     width, height)
       IN /\ passed' = [called |-> TRUE, img1 |-> a, img2 |-> b,
                        width |-> width, height |-> height]
          /\ IF ~threw
                THEN /\ numDiffPixels' = pixelmatch(a.data, b.data, width, height)
                     /\ diffImage' = [width |-> width, height |-> height,
                                      data |-> <<>>]
                     /\ ipc' = "returned"
                ELSE /\ numDiffPixels' = IF variant = "crop" THEN -1 ELSE 0
                     /\ diffImage' = NoImage
                     /\ ipc' = IF variant = "crop" THEN "returned" ELSE "threw"
    /\ UNCHANGED <<script, cvars, pvars, variant, img1, img2, comparison>>

\* results.push({ url: urlPath, match: diffPixels === 0, diffPixels, ... }).
StoreResult ==
    /\ script = "image"
    /\ ipc = "returned"
    /\ comparison' = ResultRecord(1, numDiffPixels)
    /\ ipc' = "stored"
    /\ UNCHANGED <<script, cvars, pvars, variant, img1, img2, passed,
                   numDiffPixels, diffImage>>

\* The mutant of the loop body that compares the same url again.
RetryCompare == "call"

\* catch (error) { console.error(...); continue }: the loop goes on with the
\* next url.
AfterCompareError == "skipped"

\* catch (error) { console.error(...); continue } of the loop body.
SkipResult ==
    /\ script = "image"
    /\ ipc = "threw"
    /\ ipc' = AfterCompareError
    /\ UNCHANGED <<script, cvars, pvars, variant, img1, img2, passed,
                   numDiffPixels, diffImage, comparison>>

NextImage ==
    \/ CompareScreenshots
    \/ StoreResult
    \/ SkipResult

Next == NextCompare \/ NextCheckExcel \/ NextImage

Spec == Init /\ [][Next]_vars

\* The event loop runs every callback that is ready, and every awaited
\* browser operation (newPage, the captures, close) settles.
InitFair ==
    \/ InitCompare /\ Len(excel.rows) <= MaxFairTargets
    \/ InitCheckExcel
    \/ InitImage

FairSpec == InitFair /\ [][Next]_vars /\ WF_vars(Next)

\* compare.js with a browser whose newPage() and close() may throw.
InitFault == InitCompare /\ Len(excel.rows) <= MaxFairTargets

NextFault ==
    \/ NextCompare
    \/ \E t \in TaskIds : NewPageThrows(t)
    \/ \E t \in TaskIds : CloseInCatchThrows(t)

FaultSpec == InitFault /\ [][NextFault]_vars

\* compare.js with a clock that runs.
InitClock ==
    /\ now = 0
    /\ CompareWith(ExcelFiles)
    /\ Len(excel.rows) <= MaxClockTargets

NextClock == NextCompare \/ Tick

ClockSpec == InitClock /\ [][NextClock]_vars

\* The sheets whose rows are different paths of UrlPaths, in any order.
ArtifactFiles ==
    {[exists |-> TRUE, rows |-> r] :
        r \in {q \in UNION {[1..n -> PathIds] : n \in 1..MaxArtifactTargets} :
                  \A i, j \in DOMAIN q : i # j => q[i] # q[j]}}

\* compare.js with any such sheet, and attempts that fail after writing
\* some of their files.
InitArtifacts == now = 0 /\ CompareWith(ArtifactFiles)

NextArtifacts ==
    \/ NextCompare
    \/ \E t \in TaskIds, k \in 1..3 : TryThrowsAfter(t, k)

ArtifactSpec == InitArtifacts /\ [][NextArtifacts]_vars

\* processUrls alone: every continuation that is ready runs, and every
\* page.goto of ensureLogin and extractLinks settles.
PoolFairSpec ==
    InitCheckExcel /\ [][NextCheckExcel]_vars /\ WF_vars(NextCheckExcel)

\* A TabPool whose callers call getTab() concurrently.
TabPoolSpec == InitTabPool /\ [][NextTabPool]_vars

\* ------------------------------------------------------------ properties
Targets == 1..Len(urls)

\* A task is in flight from the call task() until its function returns.
InFlight == {t \in TaskIds : tpc[t] \in {"newPage", "try", "closeOk", "closeErr"}}

Started(t) == tpc[t] # "unstarted"

Finished(t) == tpc[t] \in {"returned", "settled"}

\* C1: the number of tasks started and not yet finished never exceeds limit
\* (with limit = 1, at most one task runs at a time).
C1_AtMostLimitInFlight ==
    script = "compare" => Cardinality(InFlight) <= limit

\* C1: the limit is reached while a Target still waits to be admitted.
C1_Witness ==
    /\ script = "compare"
    /\ limit >= 2
    /\ Cardinality(InFlight) = limit
    /\ schedpc = "race"
    /\ next <= Len(urls)

\* The value runWithConcurrencyLimit returned holds, for every Target and in
\* Target order, the outcome of that Target's task: its result if an attempt
\* succeeded, null if maxAttempts attempts failed.
OneOutcomePerTarget ==
    /\ Len(runValues) = Len(urls)
    /\ \A i \in Targets :
          /\ tpc[i] = "settled"
          /\ runValues[i] = taskValue[i]
          /\ \/ runValues[i].kind = "result" /\ runValues[i].url = urls[i]
             \/ runValues[i].kind = "null" /\ failures[i] = maxAttempts

C3_AdmittedInTargetOrder ==
    [][\A t \in TaskIds :
          (~Started(t) /\ Started(t)') =>
              /\ \A u \in 1..(t - 1) : Started(u)
              /\ Cardinality(InFlight) < limit]_vars

\* C3: a later Target was admitted after an earlier task finished, while
\* another earlier task was still in flight.
C3_Witness ==
    /\ script = "compare"
    /\ limit = 2
    /\ Started(3)
    /\ \E u \in 1..2 : Finished(u)
    /\ \E u \in 1..2 : u \in InFlight

\* C4: a task returns the first successful result: if fewer than maxAttempts
\* attempts failed, the finished task made exactly failures + 1 attempts
\* (none after the success) and returned a ComparisonResult of its Target;
\* no task makes more than maxAttempts attempts.
C4_FirstSuccessReturned ==
    \A t \in TaskIds :
        /\ attempt[t] <= maxAttempts
        /\ opened[t] <= maxAttempts
        /\ (Finished(t) /\ failures[t] < maxAttempts) =>
              /\ taskValue[t].kind = "result"
              /\ taskValue[t].url = urls[t]
              /\ attempt[t] = failures[t] + 1
              /\ opened[t] = failures[t] + 1

\* C4: a task failed maxAttempts - 1 times and then returned a result.
C4_Witness ==
    \E t \in TaskIds :
        /\ Finished(t)
        /\ failures[t] = maxAttempts - 1
        /\ taskValue[t].kind = "result"
        /\ attempt[t] = maxAttempts

\* C5: a task whose maxAttempts attempts all failed returns a failure record
\* that names its Target (and carries the reason and the attempt count).
C5_FailureRecordReturned ==
    \A t \in TaskIds :
        (Finished(t) /\ failures[t] = maxAttempts) =>
            /\ taskValue[t].kind = "failure"
            /\ taskValue[t].url = urls[t]

\* C6: every attempt opens exactly one tab and closes it before the next
\* attempt starts or the task returns, whether the attempt succeeded or
\* threw; once processUrls has collected its results no tab is busy.
C6_TabReleasedAfterEveryAttempt ==
    /\ \A t \in TaskIds :
          /\ tpc[t] \in {"try", "closeOk", "closeErr"} =>
                (tabs[t] = 1 /\ opened[t] = attempt[t])
          /\ tpc[t] = "newPage" =>
                (tabs[t] = 0 /\ opened[t] = attempt[t] - 1)
          /\ tpc[t] \in {"unstarted", "returned", "settled"} => tabs[t] = 0
    /\ ppc \in {"collected", "failed"} =>
          \A i \in 1..Len(poolTabs) : ~poolTabs[i].busy

\* C6: the run is over, a task retried after a failed attempt, and no tab is
\* open.
C6_Witness ==
    /\ schedpc = "resolved"
    /\ \E t \in Targets : failures[t] >= 1 /\ opened[t] >= 2
    /\ \E t \in Targets : failures[t] = 0
    /\ \A t \in TaskIds : tabs[t] = 0

\* C7: no two callers hold the same tab of the pool at the same time, and a
\* tab a caller holds is marked busy.
C7_TabHeldByOneCaller ==
    \A c \in Callers :
        held[c] # 0 =>
            /\ \A d \in Callers \ {c} : held[d] # held[c]
            /\ FindIndex(poolTabs, held[c]) # 0
            /\ poolTabs[FindIndex(poolTabs, held[c])].busy

\* C7: two callers hold the two tabs of the pool while a third one waits.
C7_Witness ==
    \E c, d, e \in Callers :
        /\ held[c] # 0
        /\ held[d] # 0
        /\ c # d
        /\ cpc[e] = "sleep"

\* The Targets whose task returned a ComparisonResult.
Succeeded == {i \in Targets : taskValue[i].kind = "result"}

EntriesOf(list, i) == Cardinality({j \in 1..Len(list) : list[j].url = urls[i]})

\* C9: at the end of a run every Target has exactly one outcome: a Target
\* whose maxAttempts attempts failed has outcome null and no entry in the
\* result list handed to the report, every other Target has exactly one
\* entry, and the list holds nothing else.
C9_PartitionIntoSuccessesAndFailures ==
    mainpc = "done" =>
        /\ \A i \in Targets :
              IF failures[i] = maxAttempts
              THEN runValues[i].kind = "null" /\ EntriesOf(report.results, i) = 0
              ELSE runValues[i].kind = "result" /\ EntriesOf(report.results, i) = 1
        /\ \A j \in 1..Len(report.results) :
              \E i \in Targets :
                  /\ report.results[j].url = urls[i]
                  /\ failures[i] < maxAttempts

\* C9: a run ended with a Target that failed all its attempts and a Target
\* that succeeded.
C9_Witness ==
    /\ mainpc = "done"
    /\ \E i \in Targets : failures[i] = maxAttempts
    /\ \E i \in Targets : failures[i] < maxAttempts

\* C10: the summary handed to the report has totalUrls equal to the number
\* of Targets whose task returned a ComparisonResult.
C10_TotalUrlsCountsSuccesses ==
    report.called => report.totalUrls = Cardinality(Succeeded)

\* C10: the report was called for a run with a failed Target, so that
\* totalUrls is less than the number of Targets.
C10_Witness ==
    /\ report.called
    /\ report.totalUrls >= 1
    /\ report.totalUrls < Len(urls)

\* C11: when no task succeeded the report is given an explicit NoResults
\* condition in place of an average duration (not NaN, not a number).
C11_NoResultsReported ==
    (report.called /\ Len(report.results) = 0) =>
        report.avgDuration = "NoResults"

\* C12: in every result record, of the concurrent tasks, of the report and
\* of the sequential loops, match is true exactly when diffPixels is 0.
C12_MatchIffZeroDiff ==
    /\ \A t \in TaskIds :
          taskValue[t].kind = "result" =>
              (taskValue[t].match <=> taskValue[t].diffPixels = 0)
    /\ \A i \in 1..Len(report.results) :
          report.results[i].match <=> report.results[i].diffPixels = 0
    /\ comparison.kind = "result" =>
          (comparison.match <=> comparison.diffPixels = 0)

\* C12: the cropping variant returned -1 for screenshots of different
\* sizes, and the record says it is not a match.
C12_Witness ==
    /\ variant = "crop"
    /\ ipc = "stored"
    /\ comparison.kind = "result"
    /\ comparison.diffPixels = -1
    /\ ~comparison.match

\* C13: for two identical images compareScreenshots returns 0, in every
\* variant, and the record made of it is a match.
C13_IdenticalImagesMatch ==
    (script = "image" /\ img1 = img2) =>
        /\ ipc \notin {"threw", "skipped"}
        /\ ipc \in {"returned", "stored"} => numDiffPixels = 0
        /\ ipc = "stored" => (comparison.match /\ comparison.diffPixels = 0)

\* C13: two identical images with a dark pixel were compared by the
\* padding variant and recorded.
C13_Witness ==
    /\ variant = "pad"
    /\ img1 = img2
    /\ \E k \in 1..Len(img1.data) : img1.data[k] = 0
    /\ ipc = "stored"
    /\ comparison.match

\* C14: in the padding variant both images given to pixelmatch, and the
\* diff image, are max(w1,w2) wide and max(h1,h2) high.
C14_PaddedToMaxDimensions ==
    (variant = "pad" /\ ipc # "call") =>
        LET w == IF img1.width > img2.width THEN img1.width ELSE img2.width
            h == IF img1.height > img2.height THEN img1.height ELSE img2.height
        IN /\ passed.img1.width = w /\ passed.img1.height = h
           /\ passed.img2.width = w /\ passed.img2.height = h
           /\ passed.width = w /\ passed.height = h
           /\ diffImage.width = w /\ diffImage.height = h

\* C14: the first image is the narrower and the higher of the two.
C14_Witness ==
    /\ variant = "pad"
    /\ ipc = "returned"
    /\ img1.width < img2.width
    /\ img1.height > img2.height

\* The four bytes of pixel (x, y) of an image.
PixelAt(img, x, y) ==
    SubSeq(img.data, (y * img.width + x) * 4 + 1, (y * img.width + x) * 4 + 4)

\* out is src padded to W x H: src in the top-left corner, 255 elsewhere.
IsPaddingOf(out, src, W, H) ==
    /\ out.width = W
    /\ out.height = H
    /\ Len(out.data) = W * H * 4
    /\ \A x \in 0..(W - 1), y \in 0..(H - 1) :
          PixelAt(out, x, y) =
              IF x < src.width /\ y < src.height
                  THEN PixelAt(src, x, y)
                  ELSE <<255, 255, 255, 255>>

\* C15: padImage(img, W, H) with W >= img.width and H >= img.height keeps
\* every pixel of img at its place, sets every other byte to 255, and
\* returns a buffer of W * H * 4 bytes.
C15_PadImageAnchorsTopLeft ==
    (variant = "pad" /\ ipc # "call") =>
        /\ IsPaddingOf(passed.img1, img1, passed.width, passed.height)
        /\ IsPaddingOf(passed.img2, img2, passed.width, passed.height)

\* C15: an image of several rows with a dark last pixel was padded both to
\* the right and, the other one, downwards.
C15_Witness ==
    /\ variant = "pad"
    /\ ipc = "returned"
    /\ img1.height > 1
    /\ img1.width < img2.width
    /\ img2.height < img1.height
    /\ img1.data[Len(img1.data) - 3] = 0

\* C16: padding the two padded images again returns them unchanged, and an
\* image that already has the common size is passed on as it was read.
C16_PadImageIdempotent ==
    (variant = "pad" /\ ipc # "call") =>
        /\ padImage(passed.img1, passed.width, passed.height) = passed.img1
        /\ padImage(passed.img2, passed.width, passed.height) = passed.img2
        /\ (img1.width = passed.width /\ img1.height = passed.height) =>
              passed.img1 = img1
        /\ (img2.width = passed.width /\ img2.height = passed.height) =>
              passed.img2 = img2

\* C16: the second image was padded, the first, with a dark pixel, already
\* had the common size.
C16_Witness ==
    /\ variant = "pad"
    /\ ipc = "returned"
    /\ img1.width = passed.width /\ img1.height = passed.height
    /\ img2.width * img2.height < img1.width * img1.height
    /\ \E k \in 1..Len(img1.data) : img1.data[k] = 0

\* C17: in every variant, both images whose buffers are passed to
\* pixelmatch have the width and the height passed with them.
C17_DiffOnlyOnNormalized ==
    passed.called =>
        \A a \in {passed.img1, passed.img2} :
            /\ a.width = passed.width
            /\ a.height = passed.height
            /\ Len(a.data) = passed.width * passed.height * 4

\* C18: when the Target list is empty or cannot be read, main returns
\* before scheduling: no browser is launched, no page is opened, no task is
\* started and the report is not rendered.
C18_EmptyInputAbortsBeforeScheduling ==
    (script = "compare" /\ readUrlsFromExcel(excel) = <<>>) =>
        /\ mainpc \in {"start", "exited"}
        /\ ~browserOpen
        /\ loginTab = 0
        /\ schedpc = "idle"
        /\ \A t \in TaskIds : tpc[t] = "unstarted" /\ opened[t] = 0
        /\ ~report.called

\* C18: main has returned because the input file does not exist.
C18_Witness ==
    /\ script = "compare"
    /\ ~excel.exists
    /\ mainpc = "exited"

\* C19: from the moment the result list is taken for the summary, the
\* scheduler has returned, no task is in flight, every Target's task is
\* settled, and the report is given that same list.
C19_SummaryAfterDrain ==
    mainpc \in {"summary", "done"} =>
        /\ schedpc = "resolved"
        /\ InFlight = {}
        /\ \A i \in Targets : tpc[i] = "settled" /\ taskValue[i] = runValues[i]
        /\ finalResults = SelectSeq(runValues, Boolean)
        /\ report.called =>
              (report.results = finalResults /\ report.totalUrls = Len(finalResults))

\* C19: the summary is about to be computed for a run of several Targets.
C19_Witness ==
    /\ mainpc = "summary"
    /\ Len(urls) >= 2
    /\ ~report.called

\* C20: whatever the order in which the tasks ended, the list of results is
\* the list of the outcomes of the Targets that succeeded, in Target order.
C20_ResultsInTargetOrder ==
    /\ schedpc = "resolved" =>
          /\ Len(runValues) = Len(urls)
          /\ \A i \in Targets : runValues[i] = taskValue[i]
    /\ mainpc \in {"summary", "done"} =>
          /\ \A j, k \in 1..Len(finalResults) :
                j < k => finalResults[j].url < finalResults[k].url
          /\ \A i \in Targets :
                taskValue[i].kind = "result" =>
                    \E j \in 1..Len(finalResults) : finalResults[j] = taskValue[i]
          /\ Len(finalResults) = Cardinality(Succeeded)

\* C20: a run ended in which a task returned before the task of an earlier
\* Target, and both are in the result list.
C20_Witness ==
    /\ mainpc = "done"
    /\ overtaken
    /\ Len(report.results) >= 2

C24_DiffCountNonNegative ==
    /\ \A t \in TaskIds :
          taskValue[t].kind = "result" => taskValue[t].diffPixels >= 0
    /\ comparison.kind = "result" => comparison.diffPixels >= 0

\* C25: compareScreenshots of the padding variant, given a file with width 0
\* or height 0, ends with an error: no diff count is returned for it.
C25_ZeroDimensionRejected ==
    (variant = "pad" /\ (IsZeroImage(img1) \/ IsZeroImage(img2))) =>
        ipc \notin {"returned", "stored"}

\* C29: once the login page is closed, at most limit tabs are open: a task
\* in flight has at most one open tab and any other task has none.
C29_OpenTabsWithinLimit ==
    (script = "compare" /\ mainpc \notin {"start", "login"}) =>
        /\ loginTab = 0
        /\ \A t \in TaskIds :
              /\ tabs[t] <= 1
              /\ t \notin InFlight => tabs[t] = 0
        /\ Cardinality({t \in TaskIds : tabs[t] > 0}) <= limit

\* C29: as many tabs are open as the limit allows, and a task has already
\* returned.
C29_Witness ==
    /\ limit = 2
    /\ Cardinality({t \in TaskIds : tabs[t] = 1}) = 2
    /\ \E t \in TaskIds : tpc[t] = "settled"

\* C26: getTab gives a caller only a tab that was free; a caller that found
\* no free tab waits for the timer, and it gets a tab in the end: every
\* extractLinks call ends and processUrls collects the results.
C26_GetTabBlocksUntilFree ==
    /\ [][\A c \in Callers :
            (held[c] = 0 /\ held'[c] # 0) =>
                /\ FindIndex(poolTabs, held'[c]) # 0
                /\ ~poolTabs[FindIndex(poolTabs, held'[c])].busy
                /\ poolTabs'[FindIndex(poolTabs, held'[c])].busy]_vars
    /\ \A c \in Callers : (cpc[c] = "sleep") ~> (held[c] # 0)
    /\ (ppc = "extract") ~> (ppc = "collected")

\* C26: every tab is busy and a caller waits for the timer.
C26_Witness ==
    /\ script = "checkExcel"
    /\ ppc = "extract"
    /\ \A i \in 1..Len(poolTabs) : poolTabs[i].busy
    /\ \E c \in Callers : cpc[c] = "sleep"

\* C27: the pool never holds more than size tabs, holds exactly size tabs
\* once it is initialized, and never more than size tabs are busy.
C27_PoolHasSizeTabs ==
    /\ Len(poolTabs) <= poolSize
    /\ isInitialized => Len(poolTabs) = poolSize
    /\ Cardinality({i \in 1..Len(poolTabs) : poolTabs[i].busy}) <= poolSize

\* C28: when runWithConcurrencyLimit has settled, fulfilled or rejected, no
\* task it started is still in flight, and no report is made while a task is
\* in flight.
C28_NoTaskInFlightWhenSettled ==
    /\ schedpc \in {"resolved", "rejected"} => InFlight = {}
    /\ report.called => InFlight = {}

\* The task of the Target with this url.
TaskOf(urlPath) == CHOOSE t \in Targets : urls[t] = urlPath

\* C21: the dev, prod and diff files a result of the report refers to were
\* all written by the attempt of its own task that returned the result.
C21_ArtifactsOfOwnSuccessfulAttempt ==
    report.called =>
        \A i \in 1..Len(report.results) :
            LET r == report.results[i]
                own == <<TaskOf(r.url), attempt[TaskOf(r.url)]>>
            IN /\ files[cleanName(r.url)].dev = own
               /\ files[cleanName(r.url)].prod = own
               /\ files[cleanName(r.url)].diff = own

\* C22: two Targets with different paths never have the same file names,
\* so two tasks in flight never write the same file.
C22_OneFileNamePerTarget ==
    \A t, u \in Targets :
        (t # u /\ urls[t] # urls[u]) => cleanName(urls[t]) # cleanName(urls[u])

RECURSIVE SumOfDurations(_)
SumOfDurations(list) ==
    IF list = <<>> THEN 0 ELSE Head(list).duration + SumOfDurations(Tail(list))

\* C30: the duration of a result is all the time its task was in flight,
\* its failed attempts included; it is not negative and not longer than the
\* run, so the average of the durations is at most the total duration.
C30_DurationCoversAllAttempts ==
    /\ \A t \in Targets :
          taskValue[t].kind = "result" =>
              /\ taskValue[t].duration = spent[t]
              /\ taskValue[t].duration >= 0
              /\ taskValue[t].duration <= now - startTime
    /\ report.called =>
          /\ \A i \in 1..Len(report.results) :
                report.results[i].duration <= report.totalDuration
          /\ SumOfDurations(report.results) <=
                Len(report.results) * report.totalDuration

\* C30: the report holds a result whose task took time, had an attempt
\* that failed, and was started after the run.
C30_Witness ==
    /\ report.called
    /\ \E i \in 1..Len(report.results) :
          /\ failures[report.results[i].url] >= 1
          /\ report.results[i].duration >= 1
          /\ report.results[i].duration < report.totalDuration

====
